---- MODULE Spec2Model ----
(***************************************************************************)
(* Portfolio rebalancer: the Portfolio object (src/src/portfolio.py) and   *)
(* the three rebalancing strategies (src/src/optimizers/).                 *)
(*                                                                         *)
(* Numbers.  Money is counted in whole ticks (a tick is the smallest price *)
(* step, e.g. one cent), so prices and market values are integers.  A      *)
(* weight is a Decimal with four decimal places, counted in units of       *)
(* 0.0001: the weight 0.5 is 5000, 1 is WeightScale.  A product            *)
(* weight * money is kept exact by counting it in units of 0.0001 tick:    *)
(* Scaled(m) is the money amount m in those units.  All dollar fields of   *)
(* an order are kept in those units.  Decimal arithmetic is exact on these *)
(* values, and float() / Decimal(str()) round-trip them unchanged.         *)
(*                                                                         *)
(* A Python dict keeps insertion order; it is a sequence of entries with   *)
(* pairwise different keys.                                                *)
(***************************************************************************)
EXTENDS Integers, Sequences, FiniteSets, TLC

VARIABLES holdings, target_allocation, last, set_history

vars == <<holdings, target_allocation, last, set_history>>

-----------------------------------------------------------------------------
(* Bounds of the model and the input sets the operations draw from.        *)

MaxQty == 1

MaxHoldings == 2

Symbols == {"AAPL", "META", "CASH"}

HoldingPrices == {5000, 10000}

Quantities == 0..MaxQty

(* Decimal("0.0001") in weight units, and the number of weight units in 1. *)
ALLOCATION_SUM_TOLERANCE == 1

WeightScale == 10000

Scaled(m) == m * WeightScale

Abs(x) == IF x < 0 THEN -x ELSE x

-----------------------------------------------------------------------------
(* Stock (models.py) and dict helpers.                                     *)

Stock(sym, qty, price) == [symbol |-> sym, quantity |-> qty, current_price |-> price]

market_value(stock) == stock.quantity * stock.current_price

Keys(d) == {d[i].symbol : i \in 1..Len(d)}

IndexOf(d, sym) == CHOOSE i \in 1..Len(d) : d[i].symbol = sym

Get(d, sym) == d[IndexOf(d, sym)]

(* d[key] = entry: an existing key keeps its position, a new one goes last *)
DictPut(d, entry) ==
    IF entry.symbol \in Keys(d)
    THEN [d EXCEPT ![IndexOf(d, entry.symbol)] = entry]
    ELSE Append(d, entry)

DictPop(d, sym) ==
    IF sym \in Keys(d)
    THEN SelectSeq(d, LAMBDA e : e.symbol # sym)
    ELSE d

RECURSIVE SumSeq(_)
SumSeq(s) == IF s = <<>> THEN 0 ELSE Head(s) + SumSeq(Tail(s))

Map(s, F(_)) == [i \in 1..Len(s) |-> F(s[i])]

EmptyLookup == [s \in {} |-> 0]

NoOrders == <<>>

Order(action, sym, shares, amount, target, deviation) ==
    [action |-> action, symbol |-> sym, shares |-> shares,
     dollar_amount |-> amount, target_dollars |-> target,
     deviation_dollars |-> deviation]

Ok(orders) == [status |-> "ok", orders |-> orders]

Raise(what) == [status |-> what, orders |-> NoOrders]

-----------------------------------------------------------------------------
(* Portfolio (portfolio.py).                                               *)

total_value(h) == SumSeq(Map(h, market_value))

(* The range check of set_target_allocation, over all entries.             *)
RangeOk(allocation) ==
    \A i \in 1..Len(allocation) :
        ~(allocation[i].pct < 0 \/ allocation[i].pct > WeightScale)

AllocationSum(allocation) == SumSeq(Map(allocation, LAMBDA e : e.pct))

(* Mutant of SumOk: a sum off by exactly the tolerance is rejected.        *)
SumOkBelowTolerance(allocation) ==
    Abs(AllocationSum(allocation) - WeightScale) < ALLOCATION_SUM_TOLERANCE

SumOk(allocation) ==
    ~(Abs(AllocationSum(allocation) - WeightScale) > ALLOCATION_SUM_TOLERANCE)

(* What set_target_allocation answers: "ok", or the ValueError it raises,  *)
(* told apart by its message.                                              *)
SetTargetOutcome(allocation) ==
    IF ~RangeOk(allocation) THEN [status |-> "InvalidAllocation", msg |-> "between 0 and 1"]
    ELSE IF ~SumOk(allocation) THEN [status |-> "InvalidAllocation", msg |-> "sum to 1.0"]
    ELSE [status |-> "ok", msg |-> ""]

-----------------------------------------------------------------------------
(* SimpleRebalanceStrategy.calculate_orders (optimizers/simple.py).        *)

(* Mutant of SimpleShares: the share count rounded up.                     *)
SimpleSharesRoundedUp(delta_dollars, price) ==
    (Abs(delta_dollars) + Scaled(price) - 1) \div Scaled(price)

(* shares = int(abs(delta_dollars) // price)                               *)
SimpleShares(delta_dollars, price) == Abs(delta_dollars) \div Scaled(price)

(* Mutant of SimpleAction: the sides are swapped.                          *)
SimpleActionSwapped(delta_dollars) == IF delta_dollars > 0 THEN "SELL" ELSE "BUY"

SimpleAction(delta_dollars) == IF delta_dollars > 0 THEN "BUY" ELSE "SELL"

(* Mutant of SimpleOrderFor: target_dollars is the target value of the     *)
(* symbol, not the distance to it.                                         *)
SimpleOrderForTargetValue(symbol, target_value, current_value, price) ==
    LET delta_dollars == target_value - current_value
        shares == SimpleShares(delta_dollars, price)
        actual_amount == Scaled(shares * price)
        target_amount == target_value
        deviation == target_amount - actual_amount
    IN  IF delta_dollars = 0 THEN <<>>
        ELSE IF shares = 0 THEN <<>>
        ELSE <<Order(SimpleAction(delta_dollars), symbol, shares,
                     actual_amount, target_amount, deviation)>>

(* The order of one target symbol: <<>> when the loop body continues       *)
(* without appending, else the one order appended.                         *)
SimpleOrderFor(symbol, target_value, current_value, price) ==
    LET delta_dollars == target_value - current_value
        shares == SimpleShares(delta_dollars, price)
        actual_amount == Scaled(shares * price)
        target_amount == Abs(delta_dollars)
        deviation == target_amount - actual_amount
    IN  IF delta_dollars = 0 THEN <<>>
        ELSE IF shares = 0 THEN <<>>
        ELSE <<Order(SimpleAction(delta_dollars), symbol, shares,
                     actual_amount, target_amount, deviation)>>

(* Step 1: the loop over the target allocation, t the entries still to be  *)
(* visited, orders the list built so far.  A raise drops the list.         *)
RECURSIVE SimpleTargetLoop(_, _, _, _, _)
SimpleTargetLoop(h, t, V, price_lookup, orders) ==
    IF t = <<>> THEN Ok(orders)
    ELSE LET symbol == Head(t).symbol
             target_value == V * Head(t).pct
         IN  IF symbol \in Keys(h)
             THEN LET current_value == Scaled(market_value(Get(h, symbol)))
                      price == Get(h, symbol).current_price
                  IN  IF target_value - current_value # 0 /\ price = 0
                      THEN Raise("DivisionByZero")
                      ELSE SimpleTargetLoop(h, Tail(t), V, price_lookup,
                               orders \o SimpleOrderFor(symbol, target_value, current_value, price))
             ELSE IF symbol \in DOMAIN price_lookup
             THEN LET current_value == 0
                      price == price_lookup[symbol]
                  IN  IF target_value - current_value # 0 /\ price = 0
                      THEN Raise("DivisionByZero")
                      ELSE SimpleTargetLoop(h, Tail(t), V, price_lookup,
                               orders \o SimpleOrderFor(symbol, target_value, current_value, price))
             ELSE Raise("MissingPrice")

(* Mutant of SimpleLiquidation: the quantity of the holding is not looked  *)
(* at.                                                                     *)
RECURSIVE SimpleLiquidationOfEmpty(_, _)
SimpleLiquidationOfEmpty(h, t) ==
    IF h = <<>> THEN <<>>
    ELSE LET stock == Head(h)
             rest == SimpleLiquidationOfEmpty(Tail(h), t)
         IN  IF stock.symbol \notin Keys(t)
             THEN <<Order("SELL", stock.symbol, stock.quantity,
                          Scaled(market_value(stock)), Scaled(market_value(stock)), 0)>> \o rest
             ELSE rest

(* Step 2: sell holdings not in the target allocation.                     *)
RECURSIVE SimpleLiquidation(_, _)
SimpleLiquidation(h, t) ==
    IF h = <<>> THEN <<>>
    ELSE LET stock == Head(h)
             rest == SimpleLiquidation(Tail(h), t)
         IN  IF stock.symbol \notin Keys(t) /\ stock.quantity > 0
             THEN <<Order("SELL", stock.symbol, stock.quantity,
                          Scaled(market_value(stock)), Scaled(market_value(stock)), 0)>> \o rest
             ELSE rest

Simple_calculate_orders(h, t, V, price_lookup) ==
    IF V = 0 THEN Ok(NoOrders)
    ELSE LET step1 == SimpleTargetLoop(h, t, V, price_lookup, <<>>)
         IN  IF step1.status # "ok" THEN step1
             ELSE Ok(step1.orders \o SimpleLiquidation(h, t))

-----------------------------------------------------------------------------
(* Portfolio.rebalance (portfolio.py): the same two steps, written inline. *)

NotGiven == "not given"

StrategyNames == {"simple", "tracking_error", "trade_minimization"}

(* Mutant of RebalanceShares: the share count rounded up.                  *)
RebalanceSharesRoundedUp(delta_dollars, price) ==
    (Abs(delta_dollars) + Scaled(price) - 1) \div Scaled(price)

RebalanceShares(delta_dollars, price) == Abs(delta_dollars) \div Scaled(price)

RebalanceOrderFor(symbol, target_value, current_value, price) ==
    LET delta_dollars == target_value - current_value
        shares == RebalanceShares(delta_dollars, price)
        actual_amount == Scaled(shares * price)
        target_amount == Abs(delta_dollars)
        deviation == target_amount - actual_amount
        action == IF delta_dollars > 0 THEN "BUY" ELSE "SELL"
    IN  IF delta_dollars = 0 THEN <<>>
        ELSE IF shares = 0 THEN <<>>
        ELSE <<Order(action, symbol, shares, actual_amount, target_amount, deviation)>>

RECURSIVE RebalanceTargetLoop(_, _, _, _, _)
RebalanceTargetLoop(h, t, total, price_lookup, orders) ==
    IF t = <<>> THEN Ok(orders)
    ELSE LET symbol == Head(t).symbol
             target_value == total * Head(t).pct
             held == symbol \in Keys(h)
             current_value == IF held THEN Scaled(market_value(Get(h, symbol))) ELSE 0
             price == IF held THEN Get(h, symbol).current_price ELSE price_lookup[symbol]
         IN  IF ~held /\ symbol \notin DOMAIN price_lookup THEN Raise("MissingPrice")
             ELSE IF target_value - current_value # 0 /\ price = 0 THEN Raise("DivisionByZero")
             ELSE RebalanceTargetLoop(h, Tail(t), total, price_lookup,
                      orders \o RebalanceOrderFor(symbol, target_value, current_value, price))

RECURSIVE RebalanceLiquidation(_, _)
RebalanceLiquidation(h, t) ==
    IF h = <<>> THEN <<>>
    ELSE LET stock == Head(h)
             rest == RebalanceLiquidation(Tail(h), t)
         IN  IF stock.symbol \notin Keys(t) /\ stock.quantity > 0
             THEN <<Order("SELL", stock.symbol, stock.quantity,
                          Scaled(market_value(stock)), Scaled(market_value(stock)), 0)>> \o rest
             ELSE rest

(* Mutant of rebalance: the zero-total short-circuit comes first.          *)
rebalanceZeroCheckFirst(h, t, strategy, price_lookup) ==
    IF strategy # NotGiven THEN Raise("TypeError")
    ELSE IF total_value(h) = 0 THEN Ok(NoOrders)
    ELSE IF t = <<>> THEN Raise("NoTargetAllocation")
    ELSE LET step1 == RebalanceTargetLoop(h, t, total_value(h), price_lookup, <<>>)
         IN  IF step1.status # "ok" THEN step1
             ELSE Ok(step1.orders \o RebalanceLiquidation(h, t))

(* The signature is rebalance(self, price_lookup=None): a call that passes *)
(* a strategy keyword is rejected by Python with a TypeError before the    *)
(* body runs.  strategy = NotGiven is the call without that keyword.       *)
rebalance(h, t, strategy, price_lookup) ==
    IF strategy # NotGiven THEN Raise("TypeError")
    ELSE IF t = <<>> THEN Raise("NoTargetAllocation")
    ELSE IF total_value(h) = 0 THEN Ok(NoOrders)
    ELSE LET step1 == RebalanceTargetLoop(h, t, total_value(h), price_lookup, <<>>)
         IN  IF step1.status # "ok" THEN step1
             ELSE Ok(step1.orders \o RebalanceLiquidation(h, t))

-----------------------------------------------------------------------------
(* The MILP solver (scipy.optimize.milp), an external collaborator.  It is *)
(* modelled by its contract: it reports success exactly when the program   *)
(* is feasible, and then returns one of the optimal integer vectors, which *)
(* one being its own choice.                                               *)

(* All integer vectors x >= 0, one entry per price, with                   *)
(* sum(x[i] * prices[i]) <= budget: the bounds and the budget constraint.  *)
RECURSIVE BudgetVectors(_, _)
BudgetVectors(prices, budget) ==
    IF prices = <<>> THEN {<<>>}
    ELSE UNION { { <<k>> \o rest : rest \in BudgetVectors(Tail(prices), budget - k * Head(prices)) }
                 : k \in 0..(budget \div Head(prices)) }

(* The members of S with the least cost.                                   *)
ArgMin(S, Cost(_)) ==
    LET costs == {Cost(x) : x \in S}
        least == CHOOSE m \in costs : \A c \in costs : m <= c
    IN  {x \in S : Cost(x) = least}

(* The target symbols with the price and quantity each strategy resolves,  *)
(* in target order: the entries of prices, current_holdings and            *)
(* target_values / target_weights.                                         *)
Resolved(symbol, price, qty, pct) ==
    [symbol |-> symbol, price |-> price, qty |-> qty, pct |-> pct]

-----------------------------------------------------------------------------
(* TrackingErrorStrategy.calculate_orders (optimizers/tracking_error.py).  *)

(* Mutant of TE_Collect: the price lookup is asked before the holdings.    *)
RECURSIVE TE_CollectLookupFirst(_, _, _)
TE_CollectLookupFirst(h, t, price_lookup) ==
    IF t = <<>> THEN [status |-> "ok", data |-> <<>>]
    ELSE LET symbol == Head(t).symbol
             rest == TE_CollectLookupFirst(h, Tail(t), price_lookup)
         IN  IF symbol \in DOMAIN price_lookup
             THEN IF rest.status # "ok" THEN rest
                  ELSE [status |-> "ok",
                        data |-> <<Resolved(symbol, price_lookup[symbol], 0, Head(t).pct)>> \o rest.data]
             ELSE IF symbol \in Keys(h)
             THEN IF rest.status # "ok" THEN rest
                  ELSE [status |-> "ok",
                        data |-> <<Resolved(symbol, Get(h, symbol).current_price,
                                            Get(h, symbol).quantity, Head(t).pct)>> \o rest.data]
             ELSE [status |-> "MissingPrice", data |-> <<>>]

RECURSIVE TE_Collect(_, _, _)
TE_Collect(h, t, price_lookup) ==
    IF t = <<>> THEN [status |-> "ok", data |-> <<>>]
    ELSE LET symbol == Head(t).symbol
             rest == TE_Collect(h, Tail(t), price_lookup)
         IN  IF symbol \in Keys(h)
             THEN IF rest.status # "ok" THEN rest
                  ELSE [status |-> "ok",
                        data |-> <<Resolved(symbol, Get(h, symbol).current_price,
                                            Get(h, symbol).quantity, Head(t).pct)>> \o rest.data]
             ELSE IF symbol \in DOMAIN price_lookup
             THEN IF rest.status # "ok" THEN rest
                  ELSE [status |-> "ok",
                        data |-> <<Resolved(symbol, price_lookup[symbol], 0, Head(t).pct)>> \o rest.data]
             ELSE [status |-> "MissingPrice", data |-> <<>>]

(* Mutant of TE_Objective: only e_minus, the shortfall, is in the sum.     *)
TE_ObjectiveShortfallOnly(data, V, x) ==
    SumSeq([i \in 1..Len(data) |->
               IF data[i].pct * V > Scaled(data[i].price * x[i])
               THEN data[i].pct * V - Scaled(data[i].price * x[i]) ELSE 0])

(* sum(e_plus + e_minus) at the least slacks the deviation balance allows: *)
(* the total absolute deviation of x from the target values.               *)
TE_Objective(data, V, x) ==
    SumSeq([i \in 1..Len(data) |-> Abs(Scaled(data[i].price * x[i]) - data[i].pct * V)])

(* Mutant of TE_Solutions: the objective vector c is left at zero, every   *)
(* vector within the budget is optimal.                                    *)
TE_SolutionsAnyFeasible(data, V) ==
    BudgetVectors([i \in 1..Len(data) |-> data[i].price], V)

(* Mutant of TE_Solutions: the budget row is missing from the constraints; *)
(* no vector worth more than twice V can be nearer the target values.      *)
TE_SolutionsWithoutBudget(data, V) ==
    LET feasible == BudgetVectors([i \in 1..Len(data) |-> data[i].price], 2 * V)
    IN  IF feasible = {} THEN {}
        ELSE ArgMin(feasible, LAMBDA x : TE_Objective(data, V, x))

(* result.x[:n] of the calls that succeed; empty when milp reports failure *)
TE_Solutions(data, V) ==
    LET feasible == BudgetVectors([i \in 1..Len(data) |-> data[i].price], V)
    IN  IF feasible = {} THEN {}
        ELSE ArgMin(feasible, LAMBDA x : TE_Objective(data, V, x))

RECURSIVE TE_BuildOrders(_, _, _, _)
TE_BuildOrders(data, V, x_optimal, i) ==
    IF i > Len(data) THEN <<>>
    ELSE LET target_shares == x_optimal[i]
             current_qty == data[i].qty
             delta == target_shares - current_qty
             price == data[i].price
             shares == Abs(delta)
             actual_amount == Scaled(shares * price)
             target_dollar_value == data[i].pct * V
             actual_dollar_value == Scaled(target_shares * price)
             deviation == Abs(target_dollar_value - actual_dollar_value)
             action == IF delta > 0 THEN "BUY" ELSE "SELL"
             rest == TE_BuildOrders(data, V, x_optimal, i + 1)
         IN  IF delta = 0 THEN rest
             ELSE <<Order(action, data[i].symbol, shares, actual_amount,
                          Abs(target_dollar_value - Scaled(current_qty * price)),
                          deviation)>> \o rest

(* Mutant of TE_Liquidation: holdings in the target allocation are sold    *)
(* as well.                                                                *)
RECURSIVE TE_LiquidationOfAll(_, _)
TE_LiquidationOfAll(h, t) ==
    IF h = <<>> THEN <<>>
    ELSE LET stock == Head(h)
             rest == TE_LiquidationOfAll(Tail(h), t)
         IN  IF stock.quantity > 0
             THEN <<Order("SELL", stock.symbol, stock.quantity,
                          Scaled(market_value(stock)), Scaled(market_value(stock)), 0)>> \o rest
             ELSE rest

RECURSIVE TE_Liquidation(_, _)
TE_Liquidation(h, t) ==
    IF h = <<>> THEN <<>>
    ELSE LET stock == Head(h)
             rest == TE_Liquidation(Tail(h), t)
         IN  IF stock.symbol \notin Keys(t) /\ stock.quantity > 0
             THEN <<Order("SELL", stock.symbol, stock.quantity,
                          Scaled(market_value(stock)), Scaled(market_value(stock)), 0)>> \o rest
             ELSE rest

(* Mutant of TrackingError_calculate_orders: the liquidation loop runs     *)
(* before the orders of the solution are built.                            *)
TrackingError_LiquidatesFirst(h, t, V, price_lookup) ==
    IF V = 0 THEN {Ok(NoOrders)}
    ELSE LET collected == TE_Collect(h, t, price_lookup)
             solutions == TE_Solutions(collected.data, V)
         IN  IF collected.status # "ok" THEN {Raise(collected.status)}
             ELSE IF solutions = {}
             THEN {Simple_calculate_orders(h, t, V, price_lookup)}
             ELSE { Ok(TE_Liquidation(h, t) \o TE_BuildOrders(collected.data, V, x, 1))
                    : x \in solutions }

(* The results the call can produce, one per vector the solver may return. *)
TrackingError_calculate_orders(h, t, V, price_lookup) ==
    IF V = 0 THEN {Ok(NoOrders)}
    ELSE LET collected == TE_Collect(h, t, price_lookup)
             solutions == TE_Solutions(collected.data, V)
         IN  IF collected.status # "ok" THEN {Raise(collected.status)}
             ELSE IF solutions = {}
             THEN {Simple_calculate_orders(h, t, V, price_lookup)}
             ELSE { Ok(TE_BuildOrders(collected.data, V, x, 1) \o TE_Liquidation(h, t))
                    : x \in solutions }

-----------------------------------------------------------------------------
(* TradeMinimizationStrategy.calculate_orders                              *)
(* (optimizers/trade_minimization.py).                                     *)

(* Decimal("0.02") in weight units.                                        *)
DEFAULT_TOLERANCE == 200

RECURSIVE TM_Collect(_, _, _)
TM_Collect(h, t, price_lookup) ==
    IF t = <<>> THEN [status |-> "ok", data |-> <<>>]
    ELSE LET symbol == Head(t).symbol
             rest == TM_Collect(h, Tail(t), price_lookup)
         IN  IF symbol \in Keys(h)
             THEN IF rest.status # "ok" THEN rest
                  ELSE [status |-> "ok",
                        data |-> <<Resolved(symbol, Get(h, symbol).current_price,
                                            Get(h, symbol).quantity, Head(t).pct)>> \o rest.data]
             ELSE IF symbol \in DOMAIN price_lookup
             THEN IF rest.status # "ok" THEN rest
                  ELSE [status |-> "ok",
                        data |-> <<Resolved(symbol, price_lookup[symbol], 0, Head(t).pct)>> \o rest.data]
             ELSE [status |-> "MissingPrice", data |-> <<>>]

(* lower_bounds = np.maximum((target_weights - tol) * V, 0)                *)
TM_LowerBound(pct, tol, V) ==
    IF (pct - tol) * V > 0 THEN (pct - tol) * V ELSE 0

(* upper_bounds = (target_weights + tol) * V                               *)
TM_UpperBound(pct, tol, V) == (pct + tol) * V

(* Mutant of TM_InBand: the upper band constraint is left out.             *)
TM_InBandLowerOnly(data, tol, V, x) ==
    \A i \in 1..Len(data) :
        TM_LowerBound(data[i].pct, tol, V) <= Scaled(data[i].price * x[i])

TM_InBand(data, tol, V, x) ==
    \A i \in 1..Len(data) :
        /\ TM_LowerBound(data[i].pct, tol, V) <= Scaled(data[i].price * x[i])
        /\ Scaled(data[i].price * x[i]) <= TM_UpperBound(data[i].pct, tol, V)

(* Mutant of TM_Objective: only t_plus, the shares bought, is in the sum.  *)
TM_ObjectiveBuysOnly(data, x) ==
    SumSeq([i \in 1..Len(data) |-> IF x[i] > data[i].qty THEN x[i] - data[i].qty ELSE 0])

(* sum(t_plus + t_minus) at the least legs the trade balance allows: the   *)
(* number of shares traded.                                                *)
TM_Objective(data, x) ==
    SumSeq([i \in 1..Len(data) |-> Abs(x[i] - data[i].qty)])

(* Mutant of TM_Solutions: the objective vector c is left at zero, every   *)
(* feasible vector is optimal.                                             *)
TM_SolutionsAnyFeasible(data, tol, V) ==
    {x \in BudgetVectors([i \in 1..Len(data) |-> data[i].price], V) :
        TM_InBand(data, tol, V, x)}

TM_Solutions(data, tol, V) ==
    LET feasible == {x \in BudgetVectors([i \in 1..Len(data) |-> data[i].price], V) :
                        TM_InBand(data, tol, V, x)}
    IN  IF feasible = {} THEN {}
        ELSE ArgMin(feasible, LAMBDA x : TM_Objective(data, x))

RECURSIVE TM_BuildOrders(_, _, _, _)
TM_BuildOrders(data, V, x_optimal, i) ==
    IF i > Len(data) THEN <<>>
    ELSE LET target_shares == x_optimal[i]
             current_qty == data[i].qty
             delta == target_shares - current_qty
             price == data[i].price
             shares == Abs(delta)
             actual_amount == Scaled(shares * price)
             target_dollar_value == data[i].pct * V
             actual_dollar_value == Scaled(target_shares * price)
             deviation == Abs(target_dollar_value - actual_dollar_value)
             action == IF delta > 0 THEN "BUY" ELSE "SELL"
             rest == TM_BuildOrders(data, V, x_optimal, i + 1)
         IN  IF delta = 0 THEN rest
             ELSE <<Order(action, data[i].symbol, shares, actual_amount,
                          Abs(target_dollar_value - Scaled(current_qty * price)),
                          deviation)>> \o rest

RECURSIVE TM_Liquidation(_, _)
TM_Liquidation(h, t) ==
    IF h = <<>> THEN <<>>
    ELSE LET stock == Head(h)
             rest == TM_Liquidation(Tail(h), t)
         IN  IF stock.symbol \notin Keys(t) /\ stock.quantity > 0
             THEN <<Order("SELL", stock.symbol, stock.quantity,
                          Scaled(market_value(stock)), Scaled(market_value(stock)), 0)>> \o rest
             ELSE rest

(* Mutant of TradeMinimization_calculate_orders: the liquidation orders    *)
(* are appended to the fallback result too.                                *)
TradeMinimization_FallbackLiquidatesAgain(tolerance, h, t, V, price_lookup) ==
    IF V = 0 THEN {Ok(NoOrders)}
    ELSE LET collected == TM_Collect(h, t, price_lookup)
             solutions == TM_Solutions(collected.data, tolerance, V)
             fallback == Simple_calculate_orders(h, t, V, price_lookup)
         IN  IF collected.status # "ok" THEN {Raise(collected.status)}
             ELSE IF solutions = {}
             THEN {IF fallback.status # "ok" THEN fallback
                   ELSE Ok(fallback.orders \o TM_Liquidation(h, t))}
             ELSE { Ok(TM_BuildOrders(collected.data, V, x, 1) \o TM_Liquidation(h, t))
                    : x \in solutions }

(* Mutant of TradeMinimization_calculate_orders: the fallback call leaves  *)
(* out the price lookup.                                                   *)
TradeMinimization_FallbackDropsLookup(tolerance, h, t, V, price_lookup) ==
    IF V = 0 THEN {Ok(NoOrders)}
    ELSE LET collected == TM_Collect(h, t, price_lookup)
             solutions == TM_Solutions(collected.data, tolerance, V)
         IN  IF collected.status # "ok" THEN {Raise(collected.status)}
             ELSE IF solutions = {}
             THEN {Simple_calculate_orders(h, t, V, EmptyLookup)}
             ELSE { Ok(TM_BuildOrders(collected.data, V, x, 1) \o TM_Liquidation(h, t))
                    : x \in solutions }

TradeMinimization_calculate_orders(tolerance, h, t, V, price_lookup) ==
    IF V = 0 THEN {Ok(NoOrders)}
    ELSE LET collected == TM_Collect(h, t, price_lookup)
             solutions == TM_Solutions(collected.data, tolerance, V)
         IN  IF collected.status # "ok" THEN {Raise(collected.status)}
             ELSE IF solutions = {}
             THEN {Simple_calculate_orders(h, t, V, price_lookup)}
             ELSE { Ok(TM_BuildOrders(collected.data, V, x, 1) \o TM_Liquidation(h, t))
                    : x \in solutions }

-----------------------------------------------------------------------------
(* The record of the latest call: what was called, with which arguments,   *)
(* and what it answered (status "ok" or the error raised).                 *)

NoCall ==
    [op |-> "none", symbol |-> "", stock |-> <<>>, allocation |-> <<>>,
     strategy |-> NotGiven, price_lookup |-> EmptyLookup, tolerance |-> 0, V |-> 0,
     status |-> "ok", msg |-> "", orders |-> NoOrders, returned |-> <<>>,
     extra_cash |-> <<>>]

(* Input sets. *)

StockInputs ==
    {Stock(sym, qty, price) : sym \in Symbols, qty \in Quantities, price \in HoldingPrices}

(* The stocks the portfolio's caller adds: any quantity of a symbol, at the *)
(* price the symbol trades at.                                             *)
ListPrice(sym) == IF sym = "AAPL" THEN 10000 ELSE 5000

PortfolioStocks == {Stock(sym, qty, ListPrice(sym)) : sym \in Symbols, qty \in Quantities}

Weight(sym, pct) == [symbol |-> sym, pct |-> pct]

(* The allocations set_target_allocation is tried with: valid ones, with a *)
(* sum off by exactly the tolerance on either side, and invalid ones.      *)
AllocationInputs ==
    { <<>>,
      <<Weight("AAPL", 10000)>>,
      <<Weight("META", 10000)>>,
      <<Weight("AAPL", 6000), Weight("META", 4000)>>,
      <<Weight("META", 5000), Weight("AAPL", 5000)>>,
      <<Weight("AAPL", 5001), Weight("META", 5000)>>,
      <<Weight("AAPL", 4999), Weight("CASH", 5000)>>,
      <<Weight("AAPL", 0), Weight("META", 10000)>>,
      <<Weight("AAPL", 10001)>>,
      <<Weight("AAPL", 15000), Weight("META", -5000)>>,
      <<Weight("AAPL", -1000), Weight("META", 11000)>>,
      <<Weight("AAPL", -1000), Weight("META", 5000)>>,
      <<Weight("AAPL", 5000), Weight("META", 10000)>>,
      <<Weight("AAPL", 5000), Weight("META", 4000)>>,
      <<Weight("AAPL", 5002), Weight("META", 5000)>>,
      <<Weight("AAPL", 4998), Weight("META", 5000)>> }

FullLookup == [s \in Symbols |-> CASE s = "AAPL" -> 5001 [] s = "META" -> 5000 [] OTHER -> 4999]

MetaLookup == [s \in {"META"} |-> 4999]

StrategyArgs == {NotGiven} \cup StrategyNames \cup {"nonexistent"}

-----------------------------------------------------------------------------
(* The Portfolio object and its callers.                                   *)

(* set_history is a history variable, not a field of the object: "never"   *)
(* while set_target_allocation was not called, "failed" while every call   *)
(* of it raised, "succeeded" once one returned.                            *)
Init ==
    /\ holdings = <<>>
    /\ target_allocation = <<>>
    /\ last = NoCall
    /\ set_history = "never"

(* Mutant of AddStock: a symbol already held keeps its holding.            *)
AddStockKeepsExisting(stock) ==
    /\ stock.symbol \in Keys(holdings) \/ Len(holdings) < MaxHoldings
    /\ holdings' = IF stock.symbol \in Keys(holdings) THEN holdings
                   ELSE DictPut(holdings, stock)
    /\ last' = [NoCall EXCEPT !.op = "add_stock", !.stock = <<stock>>]
    /\ UNCHANGED <<target_allocation, set_history>>

(* add_stock(stock); the model keeps at most MaxHoldings symbols.          *)
AddStock(stock) ==
    /\ stock.symbol \in Keys(holdings) \/ Len(holdings) < MaxHoldings
    /\ holdings' = DictPut(holdings, stock)
    /\ last' = [NoCall EXCEPT !.op = "add_stock", !.stock = <<stock>>]
    /\ UNCHANGED <<target_allocation, set_history>>

(* remove_stock(symbol) = holdings.pop(symbol, None)                       *)
RemoveStock(symbol) ==
    /\ holdings' = DictPop(holdings, symbol)
    /\ last' = [NoCall EXCEPT !.op = "remove_stock", !.symbol = symbol,
                              !.returned = IF symbol \in Keys(holdings)
                                           THEN <<Get(holdings, symbol)>> ELSE <<>>]
    /\ UNCHANGED <<target_allocation, set_history>>

(* Mutant of SetTargetAllocation: the map is stored before it is checked.  *)
SetTargetAllocationStoresFirst(allocation) ==
    LET outcome == SetTargetOutcome(allocation)
    IN  /\ target_allocation' = allocation
        /\ last' = [NoCall EXCEPT !.op = "set_target_allocation", !.allocation = allocation,
                                  !.status = outcome.status, !.msg = outcome.msg]
        /\ set_history' = IF outcome.status = "ok" THEN "succeeded"
                          ELSE IF set_history = "never" THEN "failed" ELSE set_history
        /\ UNCHANGED holdings

SetTargetAllocation(allocation) ==
    LET outcome == SetTargetOutcome(allocation)
    IN  /\ target_allocation' = IF outcome.status = "ok" THEN allocation ELSE target_allocation
        /\ last' = [NoCall EXCEPT !.op = "set_target_allocation", !.allocation = allocation,
                                  !.status = outcome.status, !.msg = outcome.msg]
        /\ set_history' = IF outcome.status = "ok" THEN "succeeded"
                          ELSE IF set_history = "never" THEN "failed" ELSE set_history
        /\ UNCHANGED holdings

(* self.target_allocation = allocation.copy(): the caller of the last      *)
(* set_target_allocation drops a symbol from the dict it passed, which is  *)
(* not the dict the portfolio stores.                                      *)
CallerChangesAllocation(symbol) ==
    /\ last.op = "set_target_allocation"
    /\ symbol \in Keys(last.allocation)
    /\ last' = [last EXCEPT !.op = "caller_change",
                            !.allocation = DictPop(last.allocation, symbol)]
    /\ UNCHANGED <<holdings, target_allocation, set_history>>

(* total_value()                                                           *)
TotalValue ==
    /\ last' = [NoCall EXCEPT !.op = "total_value", !.V = total_value(holdings)]
    /\ UNCHANGED <<holdings, target_allocation, set_history>>

(* rebalance(price_lookup=...), or rebalance(strategy=..., price_lookup=...) *)
Rebalance(strategy, price_lookup) ==
    LET res == rebalance(holdings, target_allocation, strategy, price_lookup)
    IN  /\ last' = [NoCall EXCEPT !.op = "rebalance", !.strategy = strategy,
                                  !.price_lookup = price_lookup, !.V = total_value(holdings),
                                  !.status = res.status, !.orders = res.orders]
        /\ UNCHANGED <<holdings, target_allocation, set_history>>

Next ==
    \/ \E stock \in PortfolioStocks : AddStock(stock)
    \/ \E symbol \in Symbols : RemoveStock(symbol)
    \/ \E allocation \in AllocationInputs : SetTargetAllocation(allocation)
    \/ \E symbol \in Symbols : CallerChangesAllocation(symbol)
    \/ TotalValue
    \/ \E strategy \in StrategyArgs, price_lookup \in {EmptyLookup, FullLookup} :
           Rebalance(strategy, price_lookup)

Spec == Init /\ [][Next]_vars

-----------------------------------------------------------------------------
(* The strategies as pure functions: the inputs are drawn at the start,    *)
(* each behaviour is one calculate_orders call on them, with               *)
(* total_value = the market value of the holdings passed.                  *)

(* Every dict of at most n stocks.                                         *)
RECURSIVE HoldingsUpTo(_)
HoldingsUpTo(n) ==
    IF n = 0 THEN {<<>>}
    ELSE LET shorter == HoldingsUpTo(n - 1)
         IN  shorter \cup
             {Append(h, stock) : h \in {g \in shorter : Len(g) = n - 1},
                                 stock \in StockInputs}

HoldingInputs == {h \in HoldingsUpTo(MaxHoldings) : Cardinality(Keys(h)) = Len(h)}

WeightVectors ==
    {<<10000>>, <<5000, 5000>>, <<5001, 4999>>, <<5001, 5000>>, <<0, 10000>>,
     <<0, 7000, 3000>>}

TargetInputs ==
    {<<Weight(s, w[1])>> : s \in Symbols, w \in {v \in WeightVectors : Len(v) = 1}}
    \cup {<<Weight(p[1], w[1]), Weight(p[2], w[2])>> :
              p \in {q \in Symbols \X Symbols : q[1] # q[2]},
              w \in {v \in WeightVectors : Len(v) = 2}}
    \cup {<<Weight(p[1], w[1]), Weight(p[2], w[2]), Weight(p[3], w[3])>> :
              p \in {q \in Symbols \X Symbols \X Symbols :
                         q[1] # q[2] /\ q[1] # q[3] /\ q[2] # q[3]},
              w \in {v \in WeightVectors : Len(v) = 3}}

LookupInputs == {FullLookup, MetaLookup}

Tolerances == {DEFAULT_TOLERANCE, 5000}

StratInit ==
    /\ holdings \in HoldingInputs
    /\ target_allocation \in TargetInputs
    /\ last = NoCall
    /\ set_history = "succeeded"

Returned(op, tolerance, price_lookup, res) ==
    [NoCall EXCEPT !.op = op, !.tolerance = tolerance, !.price_lookup = price_lookup,
                   !.V = total_value(holdings), !.status = res.status, !.orders = res.orders]

CallSimple(price_lookup) ==
    /\ last.op = "none"
    /\ last' = Returned("simple", 0, price_lookup,
                   Simple_calculate_orders(holdings, target_allocation,
                                           total_value(holdings), price_lookup))
    /\ UNCHANGED <<holdings, target_allocation, set_history>>

CallTrackingError(price_lookup) ==
    /\ last.op = "none"
    /\ \E res \in TrackingError_calculate_orders(holdings, target_allocation,
                                                 total_value(holdings), price_lookup) :
           last' = Returned("tracking_error", 0, price_lookup, res)
    /\ UNCHANGED <<holdings, target_allocation, set_history>>

CallTradeMinimization(tolerance, price_lookup) ==
    /\ last.op = "none"
    /\ \E res \in TradeMinimization_calculate_orders(tolerance, holdings, target_allocation,
                                                     total_value(holdings), price_lookup) :
           last' = Returned("trade_minimization", tolerance, price_lookup, res)
    /\ UNCHANGED <<holdings, target_allocation, set_history>>

(* Mutant of CallRebalance: the holdings it liquidates leave the dict.     *)
CallRebalanceDropsLiquidated(price_lookup) ==
    LET res == rebalance(holdings, target_allocation, NotGiven, price_lookup)
    IN  /\ last.op = "none"
        /\ last' = [Returned("rebalance", 0, price_lookup, res) EXCEPT !.strategy = NotGiven]
        /\ holdings' = IF res.status = "ok" /\ res.orders # <<>>
                       THEN SelectSeq(holdings, LAMBDA stock : stock.symbol \in Keys(target_allocation))
                       ELSE holdings
        /\ UNCHANGED <<target_allocation, set_history>>

(* rebalance(price_lookup) on a portfolio that holds these holdings and    *)
(* has this target allocation set.                                         *)
CallRebalance(price_lookup) ==
    LET res == rebalance(holdings, target_allocation, NotGiven, price_lookup)
    IN  /\ last.op = "none"
        /\ last' = [Returned("rebalance", 0, price_lookup, res) EXCEPT !.strategy = NotGiven]
        /\ UNCHANGED <<holdings, target_allocation, set_history>>

StratNext ==
    \/ \E price_lookup \in LookupInputs : CallRebalance(price_lookup)
    \/ \E price_lookup \in LookupInputs : CallSimple(price_lookup)
    \/ \E price_lookup \in LookupInputs : CallTrackingError(price_lookup)
    \/ \E tolerance \in Tolerances, price_lookup \in LookupInputs :
           CallTradeMinimization(tolerance, price_lookup)

StratSpec == StratInit /\ [][StratNext]_vars

(* The same inputs with calls of the Simple strategy only, and with calls  *)
(* of the Tracking-error strategy only.                                    *)
SimpleNext == \E price_lookup \in LookupInputs : CallSimple(price_lookup)

SimpleSpec == StratInit /\ [][SimpleNext]_vars

TrackingErrorNext == \E price_lookup \in LookupInputs : CallTrackingError(price_lookup)

TrackingErrorSpec == StratInit /\ [][TrackingErrorNext]_vars

-----------------------------------------------------------------------------
(* The Simple strategy on inputs that include a price of 0, in a holding   *)
(* or in the price lookup.  The solver strategies are not called here.     *)

(* A lookup that prices a symbol at 0.                                     *)
ZeroLookup == [s \in {"META"} |-> 0]

(* The holdings with the price of the first stock set to 0.                *)
FirstPricedZero(h) == [h EXCEPT ![1].current_price = 0]

ZeroPriceHoldingInputs ==
    HoldingInputs \cup {FirstPricedZero(h) : h \in HoldingInputs \ {<<>>}}

ZeroPriceInit ==
    /\ holdings \in ZeroPriceHoldingInputs
    /\ target_allocation \in TargetInputs
    /\ last = NoCall
    /\ set_history = "succeeded"

ZeroPriceNext ==
    \E price_lookup \in LookupInputs \cup {ZeroLookup} : CallSimple(price_lookup)

ZeroPriceSpec == ZeroPriceInit /\ [][ZeroPriceNext]_vars

-----------------------------------------------------------------------------
(* The Trade-minimization strategy on portfolios of three holdings with    *)
(* larger quantities, where the band leaves the solver several ways to     *)
(* trade.                                                                  *)

MaxTradeQty == 5

TradeHoldingInputs ==
    {<<Stock("AAPL", qa, 5000), Stock("META", qm, 1000), Stock("CASH", qc, 5000)>> :
        qa \in 0..MaxTradeQty, qm \in 0..MaxTradeQty, qc \in 0..MaxTradeQty}

TradeTargetInputs ==
    { <<Weight("AAPL", 1000), Weight("META", 0), Weight("CASH", 9000)>>,
      <<Weight("META", 2000), Weight("AAPL", 4000), Weight("CASH", 4000)>>,
      <<Weight("AAPL", 5000), Weight("CASH", 5000)>> }

TradeTolerances == {DEFAULT_TOLERANCE, 1000}

TradeInit ==
    /\ holdings \in TradeHoldingInputs
    /\ target_allocation \in TradeTargetInputs
    /\ last = NoCall
    /\ set_history = "succeeded"

(* The extra_cash keyword the callers pass (cli.py), in money ticks.       *)
ExtraCashInputs == {0, 5000}

(* A call that passes extra_cash = ... to the strategy: neither __init__   *)
(* (tolerance only) nor calculate_orders (holdings, target_allocation,     *)
(* total_value, price_lookup) has such a parameter, and the call raises    *)
(* TypeError before any statement of the method runs.                      *)
TradeMinimization_with_extra_cash(tolerance, h, t, V, price_lookup, extra_cash) ==
    {Raise("TypeError")}

CallTradeMinimizationWithExtraCash(tolerance, extra_cash) ==
    /\ last.op = "none"
    /\ \E res \in TradeMinimization_with_extra_cash(tolerance, holdings, target_allocation,
                                                    total_value(holdings), EmptyLookup,
                                                    extra_cash) :
           last' = [Returned("trade_minimization", tolerance, EmptyLookup, res)
                       EXCEPT !.extra_cash = <<extra_cash>>]
    /\ UNCHANGED <<holdings, target_allocation, set_history>>

TradeNext ==
    \/ \E tolerance \in TradeTolerances : CallTradeMinimization(tolerance, EmptyLookup)
    \/ \E tolerance \in TradeTolerances, extra_cash \in ExtraCashInputs :
           CallTradeMinimizationWithExtraCash(tolerance, extra_cash)

TradeSpec == TradeInit /\ [][TradeNext]_vars

-----------------------------------------------------------------------------
(* What the properties below read off a call and its result.               *)

StrategyCall == last.op \in StrategyNames

Returned_ok == last.status = "ok"

TargetSymbols == Keys(target_allocation)

OrdersOf(orders, sym) == SelectSeq(orders, LAMBDA o : o.symbol = sym)

(* The price and quantity of a symbol by the resolution rule: from the     *)
(* holding when it is held, else from the price lookup with quantity 0.    *)
RulePrice(sym) ==
    IF sym \in Keys(holdings) THEN Get(holdings, sym).current_price
    ELSE last.price_lookup[sym]

RuleQty(sym) == IF sym \in Keys(holdings) THEN Get(holdings, sym).quantity ELSE 0

Priced(sym) == sym \in Keys(holdings) \/ sym \in DOMAIN last.price_lookup

BuyTotal(orders) ==
    SumSeq(Map(orders, LAMBDA o : IF o.action = "BUY" THEN o.dollar_amount ELSE 0))

(* Shares of sym bought less shares of it sold.                            *)
NetShares(orders, sym) ==
    SumSeq(Map(orders, LAMBDA o : IF o.symbol # sym THEN 0
                                  ELSE IF o.action = "BUY" THEN o.shares ELSE 0 - o.shares))

(* Market value of sym once the orders are applied to the holdings.        *)
PostValue(orders, sym) ==
    LET qty == RuleQty(sym) + NetShares(orders, sym)
    IN  IF qty = 0 THEN 0 ELSE qty * RulePrice(sym)

(* apply_orders (cli.py): the quantity and price maps after the loop over  *)
(* the orders.  A symbol not held enters with quantity 0 at the price      *)
(* dollar_amount / shares of its first order.                              *)
RECURSIVE apply_orders_maps(_, _)
apply_orders_maps(maps, orders) ==
    IF orders = <<>> THEN maps
    ELSE LET o == Head(orders)
             known == IF o.symbol \in Keys(maps) THEN maps
                      ELSE Append(maps, Stock(o.symbol, 0,
                                              (o.dollar_amount \div o.shares) \div WeightScale))
             qty == Get(known, o.symbol).quantity
                    + (IF o.action = "BUY" THEN o.shares ELSE 0 - o.shares)
         IN  apply_orders_maps(DictPut(known, [Get(known, o.symbol) EXCEPT !.quantity = qty]),
                               Tail(orders))

(* Mutant of apply_orders: every order adds its shares.                    *)
apply_orders_AllBought(h, orders) ==
    SelectSeq(apply_orders_maps(h, Map(orders, LAMBDA o : [o EXCEPT !.action = "BUY"])),
              LAMBDA stock : stock.quantity > 0)

(* apply_orders: the holdings of the resulting portfolio.                  *)
apply_orders(h, orders) ==
    SelectSeq(apply_orders_maps(h, orders), LAMBDA stock : stock.quantity > 0)

(* Sum over the target symbols of |post-trade value - weight * V|.         *)
TotalDeviation(orders) ==
    SumSeq([i \in 1..Len(target_allocation) |->
               Abs(Scaled(PostValue(orders, target_allocation[i].symbol))
                   - target_allocation[i].pct * last.V)])

PostTargetValue(orders) ==
    SumSeq([i \in 1..Len(target_allocation) |-> PostValue(orders, target_allocation[i].symbol)])

-----------------------------------------------------------------------------
(* C1: for every strategy and every target allocation whose weights lie in *)
(* [0,1] and sum to 1 within 1e-4, the dollar amounts of the returned BUY  *)
(* orders sum to at most total_value (no extra cash is given to any call). *)
C1_NoOverspend ==
    (StrategyCall /\ Returned_ok) => BuyTotal(last.orders) <= Scaled(last.V)

-----------------------------------------------------------------------------
(* C2: Simple strategy: for every target symbol, with                      *)
(* n = floor(|weight * total_value - current_value| / price), no order is  *)
(* emitted for it when n = 0, and otherwise exactly one, of n shares, BUY  *)
(* when the target value exceeds the current value and SELL otherwise.     *)
C2_Floor(i) ==
    LET sym == target_allocation[i].symbol
        target == target_allocation[i].pct * last.V
        current == Scaled(RuleQty(sym) * RulePrice(sym))
    IN  Abs(target - current) \div Scaled(RulePrice(sym))

C2_SimpleFloorShares ==
    (last.op = "simple" /\ Returned_ok /\ last.V > 0) =>
        \A i \in 1..Len(target_allocation) :
            LET sym == target_allocation[i].symbol
                target == target_allocation[i].pct * last.V
                current == Scaled(RuleQty(sym) * RulePrice(sym))
                mine == OrdersOf(last.orders, sym)
            IN  IF C2_Floor(i) = 0 THEN mine = <<>>
                ELSE /\ Len(mine) = 1
                     /\ mine[1].shares = C2_Floor(i)
                     /\ mine[1].action = IF target > current THEN "BUY" ELSE "SELL"

(* A Simple result with a BUY and a SELL of target symbols, and a target   *)
(* symbol off its target value that gets no order.                         *)
C2_Witness ==
    /\ last.op = "simple" /\ Returned_ok /\ last.V > 0
    /\ \E i, j \in 1..Len(target_allocation) :
          /\ OrdersOf(last.orders, target_allocation[i].symbol) # <<>>
          /\ OrdersOf(last.orders, target_allocation[i].symbol)[1].action = "BUY"
          /\ OrdersOf(last.orders, target_allocation[j].symbol) # <<>>
          /\ OrdersOf(last.orders, target_allocation[j].symbol)[1].action = "SELL"
    /\ \E i \in 1..Len(target_allocation) :
          /\ C2_Floor(i) = 0
          /\ target_allocation[i].pct * last.V
               # Scaled(RuleQty(target_allocation[i].symbol) * RulePrice(target_allocation[i].symbol))

-----------------------------------------------------------------------------
(* The one SELL order of a full liquidation of the stock.                  *)
FullSell(stock) ==
    Order("SELL", stock.symbol, stock.quantity,
          Scaled(market_value(stock)), Scaled(market_value(stock)), 0)

(* C3 as stated: every held symbol absent from the target allocation       *)
(* yields exactly one SELL order for its full quantity, with               *)
(* dollar_amount = target_dollars = market_value and deviation_dollars 0,  *)
(* in the result of every strategy.                                        *)
C3_EveryUnlistedHoldingSold ==
    (StrategyCall /\ Returned_ok) =>
        \A i \in 1..Len(holdings) :
            holdings[i].symbol \notin TargetSymbols =>
                OrdersOf(last.orders, holdings[i].symbol) = <<FullSell(holdings[i])>>

(* C3 amended: when total_value > 0, every held symbol of quantity > 0     *)
(* absent from the target allocation yields exactly one SELL order for its *)
(* full quantity, with dollar_amount = target_dollars = market_value and   *)
(* deviation_dollars 0, in the result of every strategy, the result of the *)
(* solver-failure fallback included.                                       *)
C3_UnlistedHoldingSold ==
    (StrategyCall /\ Returned_ok /\ last.V > 0) =>
        \A i \in 1..Len(holdings) :
            (holdings[i].symbol \notin TargetSymbols /\ holdings[i].quantity > 0) =>
                OrdersOf(last.orders, holdings[i].symbol) = <<FullSell(holdings[i])>>

(* A result that came through the solver-failure fallback and liquidates a *)
(* holding.                                                                *)
C3_Witness ==
    /\ last.op = "trade_minimization" /\ Returned_ok /\ last.V > 0
    /\ TM_Solutions(TM_Collect(holdings, target_allocation, last.price_lookup).data,
                    last.tolerance, last.V) = {}
    /\ \E i \in 1..Len(holdings) :
          holdings[i].symbol \notin TargetSymbols /\ holdings[i].quantity > 0

-----------------------------------------------------------------------------
(* What the Simple strategy returns for the inputs of the latest call.     *)
SimpleOnSameInputs ==
    Simple_calculate_orders(holdings, target_allocation, last.V, last.price_lookup)

(* C4 as stated: for the same inputs, the total post-trade deviation of    *)
(* the Tracking-error strategy's orders is at most that of the Simple      *)
(* strategy's orders.                                                      *)
C4_Dominance ==
    (last.op = "tracking_error" /\ Returned_ok /\ SimpleOnSameInputs.status = "ok") =>
        TotalDeviation(last.orders) <= TotalDeviation(SimpleOnSameInputs.orders)

(* C4 amended: the same, for the inputs on which the target holdings left  *)
(* by the Simple strategy's orders are worth at most total_value.          *)
C4_DominanceWithinBudget ==
    (/\ last.op = "tracking_error" /\ Returned_ok
     /\ SimpleOnSameInputs.status = "ok"
     /\ PostTargetValue(SimpleOnSameInputs.orders) <= last.V) =>
        TotalDeviation(last.orders) <= TotalDeviation(SimpleOnSameInputs.orders)

(* The Simple strategy stays within the budget and the Tracking-error      *)
(* strategy is strictly closer to the target.                              *)
C4_Witness ==
    /\ last.op = "tracking_error" /\ Returned_ok /\ last.V > 0
    /\ SimpleOnSameInputs.status = "ok"
    /\ PostTargetValue(SimpleOnSameInputs.orders) <= last.V
    /\ TotalDeviation(last.orders) < TotalDeviation(SimpleOnSameInputs.orders)

-----------------------------------------------------------------------------
(* C5: a rebalance call fails with NoTargetAllocation exactly when no      *)
(* set_target_allocation call has succeeded before it, whatever add_stock, *)
(* remove_stock and failed set_target_allocation calls came in between,    *)
(* and also when the total value is 0.                                     *)
C5_NoTargetExactlyWhenNeverSet ==
    (last.op = "rebalance" /\ last.strategy = NotGiven) =>
        (last.status = "NoTargetAllocation" <=> set_history # "succeeded")

(* NoTargetAllocation from a portfolio of total value 0 on which a stock   *)
(* was added and a set_target_allocation call failed.                      *)
C5_Witness ==
    /\ last.op = "rebalance" /\ last.strategy = NotGiven
    /\ last.status = "NoTargetAllocation"
    /\ set_history = "failed"
    /\ holdings # <<>>
    /\ total_value(holdings) = 0

-----------------------------------------------------------------------------
(* C6: rebalance on a portfolio whose total value is 0 returns the empty   *)
(* order list regardless of strategy or target allocation, also when a     *)
(* target symbol has no price available, and every strategy's              *)
(* calculate_orders returns [] when total_value = 0.                       *)
C6_ZeroValueReturnsEmpty ==
    /\ (last.op = "rebalance" /\ set_history = "succeeded" /\ total_value(holdings) = 0) =>
           (Returned_ok /\ last.orders = <<>>)
    /\ (StrategyCall /\ last.V = 0) => (Returned_ok /\ last.orders = <<>>)

-----------------------------------------------------------------------------
(* C7: set_target_allocation fails with InvalidAllocation if any weight is *)
(* < 0 or > 1, or if the sum of the weights differs from 1 by more than    *)
(* 1e-4 (a difference of exactly 1e-4 is accepted); the range check comes  *)
(* first; otherwise it succeeds and stores the map.                        *)
C7_SetTargetValidation ==
    last.op = "set_target_allocation" =>
        LET a == last.allocation
            outOfRange == \E i \in 1..Len(a) : a[i].pct < 0 \/ a[i].pct > WeightScale
            sum == SumSeq([i \in 1..Len(a) |-> a[i].pct])
            sumOff == sum - WeightScale > 1 \/ WeightScale - sum > 1
        IN  /\ last.status \in {"ok", "InvalidAllocation"}
            /\ last.status = "InvalidAllocation" <=> (outOfRange \/ sumOff)
            /\ outOfRange => last.msg = "between 0 and 1"
            /\ (~outOfRange /\ sumOff) => last.msg = "sum to 1.0"
            /\ last.status = "ok" => target_allocation = a

(* An allocation whose sum is off by exactly 1e-4 is accepted and stored.  *)
C7_Witness ==
    /\ last.op = "set_target_allocation"
    /\ last.status = "ok"
    /\ AllocationSum(last.allocation) = WeightScale + 1
    /\ target_allocation = last.allocation

-----------------------------------------------------------------------------
(* C8: in every strategy, when total_value > 0: a held target symbol takes *)
(* its price and quantity from the holding, also when the price lookup has *)
(* it; one not held takes its price from the price lookup, with quantity   *)
(* 0; if a target symbol is in neither, the call fails with MissingPrice   *)
(* and returns no orders.                                                  *)
C8_PriceResolution ==
    (StrategyCall /\ last.V > 0) =>
        /\ last.status = "MissingPrice" <=> (\E sym \in TargetSymbols : ~Priced(sym))
        /\ last.status = "MissingPrice" => last.orders = <<>>
        /\ Returned_ok =>
              \A i \in 1..Len(target_allocation) :
                  LET sym == target_allocation[i].symbol
                      mine == OrdersOf(last.orders, sym)
                  IN  \A k \in 1..Len(mine) :
                          /\ mine[k].dollar_amount = Scaled(mine[k].shares * RulePrice(sym))
                          /\ mine[k].target_dollars =
                                 Abs(target_allocation[i].pct * last.V
                                     - Scaled(RuleQty(sym) * RulePrice(sym)))

(* An order for a held target symbol that the price lookup prices          *)
(* otherwise, next to an order for a target symbol that is not held.       *)
C8_Witness ==
    /\ StrategyCall /\ Returned_ok /\ last.V > 0
    /\ \E sym \in TargetSymbols :
          /\ sym \in Keys(holdings) /\ sym \in DOMAIN last.price_lookup
          /\ last.price_lookup[sym] # Get(holdings, sym).current_price
          /\ OrdersOf(last.orders, sym) # <<>>
    /\ \E sym \in TargetSymbols :
          /\ sym \notin Keys(holdings)
          /\ OrdersOf(last.orders, sym) # <<>>

-----------------------------------------------------------------------------
(* C9: rebalance called with a strategy name other than simple,            *)
(* tracking_error or trade_minimization fails with UnknownStrategy, and    *)
(* called with each of the three known names it returns a list of orders   *)
(* (a target allocation being set and every target symbol priced).         *)
C9_StrategyDispatch ==
    (last.op = "rebalance" /\ set_history = "succeeded") =>
        /\ last.strategy = "nonexistent" => last.status = "UnknownStrategy"
        /\ (last.strategy \in StrategyNames /\ \A sym \in TargetSymbols : Priced(sym)) =>
               Returned_ok

-----------------------------------------------------------------------------
(* C10: rebalance with the default strategy returns exactly what           *)
(* SimpleRebalanceStrategy.calculate_orders returns for the portfolio's    *)
(* holdings, target allocation, total_value() and the same price lookup.   *)
C10_DefaultIsSimple ==
    (last.op = "rebalance" /\ last.strategy = NotGiven
         /\ last.status # "NoTargetAllocation") =>
        [status |-> last.status, orders |-> last.orders]
            = Simple_calculate_orders(holdings, target_allocation,
                                      total_value(holdings), last.price_lookup)

(* A default rebalance that returns a BUY, a SELL of a target symbol and a *)
(* liquidation.                                                            *)
C10_Witness ==
    /\ last.op = "rebalance" /\ last.strategy = NotGiven /\ Returned_ok
    /\ \E i, j, k \in 1..Len(last.orders) :
          /\ last.orders[i].action = "BUY"
          /\ last.orders[j].action = "SELL" /\ last.orders[j].symbol \in TargetSymbols
          /\ last.orders[k].action = "SELL" /\ last.orders[k].symbol \notin TargetSymbols

-----------------------------------------------------------------------------
(* C11: rebalance and every strategy's calculate_orders are pure queries:  *)
(* whether the call returns orders, returns [] or fails, the holdings      *)
(* (symbols, quantities, prices, order) and the target allocation are the  *)
(* same after the call as before it.                                       *)
C11_PureQueries ==
    [][(last'.op \in StrategyNames \cup {"rebalance"}) =>
           (holdings' = holdings /\ target_allocation' = target_allocation)]_vars

(* A rebalance that returned a liquidation order, the holding still held.  *)
C11_Witness ==
    /\ last.op = "rebalance" /\ Returned_ok
    /\ \E k \in 1..Len(last.orders) :
          /\ last.orders[k].symbol \notin TargetSymbols
          /\ last.orders[k].symbol \in Keys(holdings)

-----------------------------------------------------------------------------
(* The place of an order in the prescribed output: target symbols in the   *)
(* order of the target allocation, then the other held symbols in the      *)
(* order of the holdings.                                                  *)
OrderRank(o) ==
    IF o.symbol \in TargetSymbols THEN IndexOf(target_allocation, o.symbol)
    ELSE Len(target_allocation) + IndexOf(holdings, o.symbol)

(* C12: in every strategy's result the orders for target symbols come      *)
(* first, in target-allocation iteration order, followed by the            *)
(* liquidation orders, in holdings iteration order (each symbol once); no  *)
(* liquidation order precedes a target-symbol order.                       *)
C12_OutputOrdering ==
    (StrategyCall /\ Returned_ok) =>
        \A i, j \in 1..Len(last.orders) :
            i < j => OrderRank(last.orders[i]) < OrderRank(last.orders[j])

(* A solver result with orders for two target symbols, the second in the   *)
(* target allocation being the first in the holdings, and a liquidation.   *)
C12_Witness ==
    /\ last.op = "tracking_error" /\ Returned_ok
    /\ Len(last.orders) = 3
    /\ last.orders[1].symbol \in TargetSymbols
    /\ last.orders[2].symbol \in TargetSymbols
    /\ last.orders[2].symbol \in Keys(holdings)
    /\ last.orders[3].symbol \notin TargetSymbols
    /\ IndexOf(holdings, last.orders[3].symbol) = 2

-----------------------------------------------------------------------------
(* The solver call of the latest call reported no success: the call got    *)
(* past the zero-value return and the collection loop, and the program it  *)
(* built has no solution: no vector meets its constraints.                 *)
SolverFailed ==
    /\ last.V > 0
    /\ \/ /\ last.op = "tracking_error"
          /\ LET collected == TE_Collect(holdings, target_allocation, last.price_lookup)
             IN  /\ collected.status = "ok"
                 /\ BudgetVectors([i \in 1..Len(collected.data) |-> collected.data[i].price],
                                  last.V) = {}
       \/ /\ last.op = "trade_minimization"
          /\ LET collected == TM_Collect(holdings, target_allocation, last.price_lookup)
             IN  /\ collected.status = "ok"
                 /\ \A x \in BudgetVectors([i \in 1..Len(collected.data) |->
                                                collected.data[i].price], last.V) :
                        ~TM_InBand(collected.data, last.tolerance, last.V, x)

-----------------------------------------------------------------------------
(* C14: the Simple strategy never fails except with MissingPrice: for      *)
(* holdings with quantities >= 0 and prices >= 0 (0 included), a valid     *)
(* target allocation and a price lookup that covers the target symbols not *)
(* held, calculate_orders returns an order list.                           *)
C14_SimpleNeverFails ==
    last.op = "simple" =>
        /\ last.status \in {"ok", "MissingPrice"}
        /\ (\A sym \in TargetSymbols : Priced(sym)) => Returned_ok

-----------------------------------------------------------------------------
(* What the Trade-minimization call of the latest call resolved, and the   *)
(* final holdings its band and budget allow.                               *)
TM_Data == TM_Collect(holdings, target_allocation, last.price_lookup).data

TM_Feasible ==
    {x \in BudgetVectors([i \in 1..Len(TM_Data) |-> TM_Data[i].price], last.V) :
        TM_InBand(TM_Data, last.tolerance, last.V, x)}

TM_SolverSucceeded ==
    /\ last.op = "trade_minimization" /\ last.V > 0
    /\ TM_Collect(holdings, target_allocation, last.price_lookup).status = "ok"
    /\ TM_Feasible # {}

(* The number of target symbols whose quantity x changes.                  *)
SymbolsTraded(x) == Cardinality({i \in 1..Len(TM_Data) : x[i] # TM_Data[i].qty})

(* The number of target symbols the orders trade.                          *)
SymbolsOrdered(orders) ==
    Cardinality({sym \in TargetSymbols : OrdersOf(orders, sym) # <<>>})

(* C15: when the solver succeeds, the Trade-minimization result trades the *)
(* least possible number of distinct target symbols among all non-negative *)
(* integer final holdings within the tolerance band and the budget.        *)
C15_FewestSymbolsTraded ==
    TM_SolverSucceeded =>
        \A x \in TM_Feasible : SymbolsOrdered(last.orders) <= SymbolsTraded(x)

-----------------------------------------------------------------------------
(* Every target symbol's value, once the orders are applied, lies in       *)
(* [max((weight - tol) * V, 0), (weight + tol) * V].                       *)
WithinTolerance(orders) ==
    \A i \in 1..Len(target_allocation) :
        LET value == Scaled(PostValue(orders, target_allocation[i].symbol))
            pct == target_allocation[i].pct
        IN  /\ (pct - last.tolerance) * last.V <= value
            /\ 0 <= value
            /\ value <= (pct + last.tolerance) * last.V

(* C16 as stated: after applying the orders returned by the                *)
(* Trade-minimization strategy with tolerance tol, every target symbol's   *)
(* post-trade value lies in its tolerance band.                            *)
C16_AlwaysWithinTolerance ==
    (last.op = "trade_minimization" /\ Returned_ok /\ last.V > 0) =>
        WithinTolerance(last.orders)

(* C16 amended: the same, for the calls whose solver reports success.      *)
C16_WithinToleranceOnSuccess ==
    (TM_SolverSucceeded /\ Returned_ok) => WithinTolerance(last.orders)

(* A solver result that moves a target symbol from above its band and      *)
(* another from below its band into the band.                              *)
C16_Witness ==
    /\ TM_SolverSucceeded /\ Returned_ok
    /\ ~WithinTolerance(<<>>)
    /\ \E i, j \in 1..Len(last.orders) :
          /\ last.orders[i].action = "BUY" /\ last.orders[i].symbol \in TargetSymbols
          /\ last.orders[j].action = "SELL" /\ last.orders[j].symbol \in TargetSymbols
    /\ WithinTolerance(last.orders)

-----------------------------------------------------------------------------
(* C17: if every target symbol is priced and its current holding value     *)
(* lies inside its tolerance band, the Trade-minimization strategy returns *)
(* no order for any target symbol, hence no order at all when no other     *)
(* symbol is held.                                                         *)
C17_NoTradeInsideBand ==
    (/\ last.op = "trade_minimization"
     /\ \A sym \in TargetSymbols : Priced(sym)
     /\ WithinTolerance(<<>>)) =>
        /\ Returned_ok
        /\ \A sym \in TargetSymbols : OrdersOf(last.orders, sym) = <<>>
        /\ (\A i \in 1..Len(holdings) :
                holdings[i].symbol \in TargetSymbols \/ holdings[i].quantity = 0)
               => last.orders = <<>>

(* A portfolio off its target weights but inside a tolerance of 0.5, for   *)
(* which no order is returned.                                             *)
C17_Witness ==
    /\ last.op = "trade_minimization" /\ last.V > 0 /\ Returned_ok
    /\ last.tolerance = 5000
    /\ WithinTolerance(<<>>)
    /\ \E i \in 1..Len(target_allocation) :
          Scaled(PostValue(<<>>, target_allocation[i].symbol))
              # target_allocation[i].pct * last.V
    /\ \E i \in 1..Len(target_allocation) :
          target_allocation[i].symbol \notin Keys(holdings)
    /\ last.orders = <<>>

-----------------------------------------------------------------------------
(* The number of shares over all the orders of a result.                   *)
TotalShares(orders) == SumSeq([k \in 1..Len(orders) |-> orders[k].shares])

(* C18: for the same holdings, target allocation, total value and price    *)
(* lookup, the total number of shares over the Trade-minimization          *)
(* strategy's orders is at most the total number of shares over the Simple *)
(* strategy's orders.                                                      *)
C18_FewerSharesThanSimple ==
    (last.op = "trade_minimization" /\ Returned_ok /\ SimpleOnSameInputs.status = "ok") =>
        TotalShares(last.orders) <= TotalShares(SimpleOnSameInputs.orders)

(* C18 amended: the same, for the inputs on which the solver reports no    *)
(* success or the holdings left by the Simple strategy's orders lie within *)
(* the tolerance band and are worth at most total_value.                   *)
C18_FewerSharesWhenSimpleInBand ==
    (/\ last.op = "trade_minimization" /\ Returned_ok
     /\ SimpleOnSameInputs.status = "ok"
     /\ \/ SolverFailed
        \/ /\ WithinTolerance(SimpleOnSameInputs.orders)
           /\ PostTargetValue(SimpleOnSameInputs.orders) <= last.V) =>
        TotalShares(last.orders) <= TotalShares(SimpleOnSameInputs.orders)

(* The Simple strategy's orders lead into the band and the                 *)
(* Trade-minimization strategy gets there with fewer shares.               *)
C18_Witness ==
    /\ TM_SolverSucceeded /\ Returned_ok
    /\ SimpleOnSameInputs.status = "ok"
    /\ WithinTolerance(SimpleOnSameInputs.orders)
    /\ PostTargetValue(SimpleOnSameInputs.orders) <= last.V
    /\ last.orders # <<>>
    /\ TotalShares(last.orders) < TotalShares(SimpleOnSameInputs.orders)

-----------------------------------------------------------------------------
(* C19: Trade-minimization accepts an optional extra cash >= 0 and uses    *)
(* budget = total_value + extra cash in the budget constraint and in the   *)
(* tolerance band: the call returns orders, the target holdings they leave *)
(* are worth at most total_value + extra cash, and each order's            *)
(* target_dollars is |weight * total_value - current value|.               *)
C19_ExtraCashBudget ==
    (last.op = "trade_minimization" /\ last.extra_cash # <<>> /\ last.V > 0) =>
        /\ Returned_ok
        /\ PostTargetValue(last.orders) <= last.V + last.extra_cash[1]
        /\ \A i \in 1..Len(target_allocation) :
               LET sym == target_allocation[i].symbol
                   mine == OrdersOf(last.orders, sym)
               IN  \A k \in 1..Len(mine) :
                       mine[k].target_dollars =
                           Abs(target_allocation[i].pct * last.V
                               - Scaled(RuleQty(sym) * RulePrice(sym)))

-----------------------------------------------------------------------------
SellTotal(orders) ==
    SumSeq(Map(orders, LAMBDA o : IF o.action = "SELL" THEN o.dollar_amount ELSE 0))

(* C20: after applying the Tracking-error strategy's orders, the target    *)
(* symbols' holdings are worth at most total_value, and the BUY orders are *)
(* covered by the SELL orders, liquidations included.                      *)
C20_TrackingErrorWithinBudget ==
    (last.op = "tracking_error" /\ Returned_ok) =>
        /\ PostTargetValue(last.orders) <= last.V
        /\ BuyTotal(last.orders) <= SellTotal(last.orders)

(* A result whose BUY orders take more than its sales of target symbols    *)
(* bring in, the liquidation of another holding covering the rest.         *)
C20_Witness ==
    /\ last.op = "tracking_error" /\ Returned_ok
    /\ \E k \in 1..Len(last.orders) :
          last.orders[k].action = "SELL" /\ last.orders[k].symbol \in TargetSymbols
    /\ \E k \in 1..Len(last.orders) : last.orders[k].symbol \notin TargetSymbols
    /\ BuyTotal(last.orders) >
           SumSeq(Map(last.orders, LAMBDA o : IF o.action = "SELL" /\ o.symbol \in TargetSymbols
                                             THEN o.dollar_amount ELSE 0))
    /\ BuyTotal(last.orders) <= SellTotal(last.orders)

-----------------------------------------------------------------------------
(* The total absolute deviation from the target values of holding x[i]     *)
(* shares of the i-th target symbol, at the price the resolution rule      *)
(* gives it.                                                               *)
DeviationOf(x) ==
    SumSeq([i \in 1..Len(target_allocation) |->
               Abs(Scaled(RulePrice(target_allocation[i].symbol) * x[i])
                   - target_allocation[i].pct * last.V)])

(* C21: when the solver succeeds, the share vector the Tracking-error      *)
(* strategy's orders lead to minimizes the sum over the target symbols of  *)
(* |price * x - weight * total_value| over all non-negative integer        *)
(* vectors with sum(price * x) <= total_value.                             *)
C21_TrackingErrorOptimal ==
    (last.op = "tracking_error" /\ Returned_ok /\ last.V > 0) =>
        LET reached == TotalDeviation(last.orders)
        IN  \A x \in BudgetVectors([i \in 1..Len(target_allocation) |->
                                       RulePrice(target_allocation[i].symbol)], last.V) :
                reached <= DeviationOf(x)

(* A result that cannot reach the target values and is nearer to them than *)
(* the holdings were.                                                      *)
C21_Witness ==
    /\ last.op = "tracking_error" /\ Returned_ok /\ last.V > 0
    /\ Len(target_allocation) > 1
    /\ last.orders # <<>>
    /\ TotalDeviation(last.orders) > 0
    /\ TotalDeviation(last.orders) < TotalDeviation(<<>>)

-----------------------------------------------------------------------------
(* C22: every order returned by every strategy has action BUY or SELL, a   *)
(* whole number of shares > 0, and dollar_amount, target_dollars and       *)
(* deviation_dollars >= 0.                                                 *)
C22_OrderFieldsValid ==
    (StrategyCall /\ Returned_ok) =>
        \A k \in 1..Len(last.orders) :
            /\ last.orders[k].action \in {"BUY", "SELL"}
            /\ last.orders[k].shares \in Nat \ {0}
            /\ last.orders[k].dollar_amount >= 0
            /\ last.orders[k].target_dollars >= 0
            /\ last.orders[k].deviation_dollars >= 0

(* A Simple result with an order that leaves a rounding residue, while a   *)
(* holding of quantity 0 outside the target allocation gets no order.      *)
C22_Witness ==
    /\ last.op = "simple" /\ Returned_ok
    /\ \E k \in 1..Len(last.orders) : last.orders[k].deviation_dollars > 0
    /\ \E i \in 1..Len(holdings) :
          /\ holdings[i].symbol \notin TargetSymbols
          /\ holdings[i].quantity = 0
          /\ OrdersOf(last.orders, holdings[i].symbol) = <<>>

-----------------------------------------------------------------------------
(* C23: after any sequence of add_stock and remove_stock calls the         *)
(* holdings map holds, for each symbol, the holding of the latest          *)
(* add_stock not followed by a remove_stock of that symbol, and            *)
(* total_value() is the sum of quantity * price over that map.  Stated     *)
(* step by step: add_stock(stock) makes stock the holding of its symbol    *)
(* and leaves every other symbol as it was; remove_stock(symbol) returns   *)
(* the prior holding (None when absent, changing nothing), leaves the      *)
(* symbol absent and every other symbol as it was; no other operation      *)
(* changes the map; total_value() returns the sum over the map.            *)
HoldingOf(h, sym) == IF sym \in Keys(h) THEN <<Get(h, sym)>> ELSE <<>>

ValueOfSymbols(h, syms) ==
    LET RECURSIVE Sum(_)
        Sum(S) == IF S = {} THEN 0
                  ELSE LET sym == CHOOSE x \in S : TRUE
                       IN  (IF sym \in Keys(h)
                            THEN Get(h, sym).quantity * Get(h, sym).current_price ELSE 0)
                           + Sum(S \ {sym})
    IN  Sum(syms)

C23_Step ==
    /\ last'.op = "add_stock" =>
          /\ HoldingOf(holdings', last'.stock[1].symbol) = last'.stock
          /\ \A sym \in Symbols \ {last'.stock[1].symbol} :
                HoldingOf(holdings', sym) = HoldingOf(holdings, sym)
    /\ last'.op = "remove_stock" =>
          /\ last'.returned = HoldingOf(holdings, last'.symbol)
          /\ HoldingOf(holdings', last'.symbol) = <<>>
          /\ \A sym \in Symbols \ {last'.symbol} :
                HoldingOf(holdings', sym) = HoldingOf(holdings, sym)
          /\ last'.returned = <<>> => holdings' = holdings
    /\ last'.op \notin {"add_stock", "remove_stock"} => holdings' = holdings
    /\ last'.op = "total_value" =>
          /\ last'.V = ValueOfSymbols(holdings', Symbols)
          /\ holdings' = <<>> => last'.V = 0

C23_HoldingsFollowCalls == [][C23_Step]_vars

(* add_stock has just replaced the holding of the first of two symbols     *)
(* held, by a holding of quantity > 0.                                     *)
C23_Witness ==
    /\ last.op = "add_stock"
    /\ Len(holdings) = 2
    /\ holdings[1] = last.stock[1]
    /\ holdings[1].quantity > 0 /\ holdings[2].quantity > 0

-----------------------------------------------------------------------------
(* C24: each Simple-strategy order for a target symbol has                 *)
(* dollar_amount = shares * price, target_dollars = |weight * total_value  *)
(* - current_value| and deviation_dollars = target_dollars - dollar_amount *)
(* with 0 <= deviation_dollars < price; holdings {CASH: 1 @ 1000}, target  *)
(* {META: 1.0} and lookup {META: 580} give exactly one META order:         *)
(* BUY 1, 580, 1000, 420.                                                  *)
C24_ExampleOrders ==
    Simple_calculate_orders(<<Stock("CASH", 1, 100000)>>, <<Weight("META", WeightScale)>>,
                            100000, [sym \in {"META"} |-> 58000]).orders

C24_SimpleOrderAmounts ==
    /\ (last.op = "simple" /\ Returned_ok) =>
          \A i \in 1..Len(target_allocation) :
              LET sym == target_allocation[i].symbol
                  for_sym == OrdersOf(last.orders, sym)
              IN  \A k \in 1..Len(for_sym) :
                      LET o == for_sym[k]
                      IN  /\ o.dollar_amount = Scaled(o.shares * RulePrice(sym))
                          /\ o.target_dollars =
                                Abs(target_allocation[i].pct * last.V
                                    - Scaled(RuleQty(sym) * RulePrice(sym)))
                          /\ o.deviation_dollars = o.target_dollars - o.dollar_amount
                          /\ 0 <= o.deviation_dollars
                          /\ o.deviation_dollars < Scaled(RulePrice(sym))
    /\ OrdersOf(C24_ExampleOrders, "META") =
          <<Order("BUY", "META", 1, Scaled(58000), Scaled(100000), Scaled(42000))>>

(* A Simple result with a SELL of a held target symbol and a BUY, at a     *)
(* lookup price, of a target symbol not held, which leaves a residue.      *)
C24_Witness ==
    /\ last.op = "simple" /\ Returned_ok
    /\ \E i, j \in 1..Len(target_allocation) :
          LET held == target_allocation[i].symbol
              new == target_allocation[j].symbol
          IN  /\ held \in Keys(holdings) /\ new \notin Keys(holdings)
              /\ \E k \in 1..Len(last.orders) :
                    last.orders[k].symbol = held /\ last.orders[k].action = "SELL"
              /\ \E k \in 1..Len(last.orders) :
                    /\ last.orders[k].symbol = new /\ last.orders[k].action = "BUY"
                    /\ last.orders[k].deviation_dollars > 0

-----------------------------------------------------------------------------
(* C25: applying the Simple strategy's orders to the input holdings leaves *)
(* every target symbol within its deviation bound: the post-trade value    *)
(* differs from weight * total_value by less than one share price (by 0    *)
(* for a symbol without a price, which only a call with total_value 0      *)
(* accepts), a BUY ends at or below the target and a SELL at or above, and *)
(* the difference equals the order's deviation_dollars.                    *)
AppliedValue(sym) ==
    LET applied == apply_orders(holdings, last.orders)
    IN  IF sym \in Keys(applied) THEN Scaled(market_value(Get(applied, sym))) ELSE 0

C25_SimplePostTradeBound ==
    (last.op = "simple" /\ Returned_ok) =>
        \A i \in 1..Len(target_allocation) :
            LET sym == target_allocation[i].symbol
                target_value == target_allocation[i].pct * last.V
                post == AppliedValue(sym)
                for_sym == OrdersOf(last.orders, sym)
            IN  /\ IF Priced(sym) THEN Abs(post - target_value) < Scaled(RulePrice(sym))
                                  ELSE post = target_value
                /\ \A k \in 1..Len(for_sym) :
                      /\ for_sym[k].action = "BUY" => post <= target_value
                      /\ for_sym[k].action = "SELL" => post >= target_value
                      /\ Abs(post - target_value) = for_sym[k].deviation_dollars

(* Applying a Simple result leaves a symbol bought at its lookup price     *)
(* strictly below its target, and shrinks another target symbol that was   *)
(* held.                                                                   *)
C25_Witness ==
    /\ last.op = "simple" /\ Returned_ok
    /\ \E i, j \in 1..Len(target_allocation) :
          LET new == target_allocation[i].symbol
              held == target_allocation[j].symbol
          IN  /\ new \notin Keys(holdings)
              /\ new \in Keys(apply_orders(holdings, last.orders))
              /\ AppliedValue(new) < target_allocation[i].pct * last.V
              /\ held \in Keys(holdings)
              /\ AppliedValue(held) < Scaled(market_value(Get(holdings, held)))

-----------------------------------------------------------------------------
(* C27: a failing set_target_allocation leaves the stored target           *)
(* allocation unchanged and a successful one stores a copy, so after any   *)
(* sequence of public Portfolio operations the stored target allocation is *)
(* either empty (never set) or the last successfully set map, with every   *)
(* weight in [0,1] and a sum within 1e-4 of 1.  Stated step by step: a     *)
(* successful call stores its argument; every other step, a failing call   *)
(* and a later change of the caller's dict included, leaves the stored map *)
(* as it was; the stored map is empty exactly when no call has succeeded,  *)
(* and valid otherwise.                                                    *)
C27_Step ==
    /\ IF last'.op = "set_target_allocation" /\ last'.status = "ok"
       THEN target_allocation' = last'.allocation
       ELSE target_allocation' = target_allocation
    /\ target_allocation' = <<>> <=> set_history' # "succeeded"
    /\ \A i \in 1..Len(target_allocation') :
          target_allocation'[i].pct >= 0 /\ target_allocation'[i].pct <= WeightScale
    /\ target_allocation' # <<>> =>
          LET sum == SumSeq([i \in 1..Len(target_allocation') |-> target_allocation'[i].pct])
          IN  sum - WeightScale <= 1 /\ WeightScale - sum <= 1

C27_StoredTargetValid == [][C27_Step]_vars

(* A set_target_allocation call has just failed on a portfolio that keeps  *)
(* the map of an earlier successful call.                                  *)
C27_Witness ==
    /\ last.op = "set_target_allocation"
    /\ last.status = "InvalidAllocation"
    /\ target_allocation # <<>>
    /\ target_allocation # last.allocation

-----------------------------------------------------------------------------
(* C28: no order sells more than is held: for every SELL of every          *)
(* strategy, shares <= the quantity currently held, a target symbol not    *)
(* held never receives a SELL, and applying all returned orders never      *)
(* produces a negative quantity.                                           *)
C28_NoOversell ==
    (StrategyCall /\ Returned_ok) =>
        /\ \A k \in 1..Len(last.orders) :
              last.orders[k].action = "SELL" =>
                  /\ last.orders[k].symbol \in Keys(holdings)
                  /\ last.orders[k].shares <= RuleQty(last.orders[k].symbol)
        /\ \A sym \in Symbols : RuleQty(sym) + NetShares(last.orders, sym) >= 0
        /\ LET maps == apply_orders_maps(holdings, last.orders)
           IN  \A i \in 1..Len(maps) : maps[i].quantity >= 0

(* A solver strategy sells the whole holding of a target symbol and buys a *)
(* target symbol that was not held; a holding outside the target           *)
(* allocation is sold whole.                                               *)
C28_Witness ==
    /\ last.op \in {"tracking_error", "trade_minimization"} /\ Returned_ok
    /\ \E k \in 1..Len(last.orders) :
          /\ last.orders[k].action = "SELL"
          /\ last.orders[k].symbol \in TargetSymbols
          /\ last.orders[k].shares = RuleQty(last.orders[k].symbol)
    /\ \E k \in 1..Len(last.orders) :
          /\ last.orders[k].action = "BUY"
          /\ last.orders[k].symbol \notin Keys(holdings)

-----------------------------------------------------------------------------
(* C29: every strategy's result contains at most one order per symbol,     *)
(* never both a BUY and a SELL of it, and the symbols of the target-driven *)
(* orders and of the liquidation orders are disjoint: an order is either   *)
(* for a target symbol, or a SELL of a holding outside the target          *)
(* allocation.                                                             *)
C29_OneOrderPerSymbol ==
    (StrategyCall /\ Returned_ok) =>
        /\ \A j, k \in 1..Len(last.orders) :
              last.orders[j].symbol = last.orders[k].symbol => j = k
        /\ \A k \in 1..Len(last.orders) :
              \/ last.orders[k].symbol \in TargetSymbols
              \/ /\ last.orders[k].symbol \in Keys(holdings)
                 /\ last.orders[k].action = "SELL"
                 /\ last.orders[k].deviation_dollars = 0

(* A Tracking-error result with a BUY and a SELL of target symbols and the *)
(* liquidation of a third symbol.                                          *)
C29_Witness ==
    /\ last.op = "tracking_error" /\ Returned_ok
    /\ \E i, j, k \in 1..Len(last.orders) :
          /\ last.orders[i].action = "BUY" /\ last.orders[i].symbol \in TargetSymbols
          /\ last.orders[j].action = "SELL" /\ last.orders[j].symbol \in TargetSymbols
          /\ last.orders[k].symbol \notin TargetSymbols

-----------------------------------------------------------------------------
(* C30, as claimed: the Simple strategy's orders are self-financing: the   *)
(* total BUY dollar_amount is <= the total SELL dollar_amount              *)
(* (liquidations included), i.e. the market value of the holdings after    *)
(* applying the orders is <= the input total_value.                        *)
C30_SelfFinancing ==
    (last.op = "simple" /\ Returned_ok) =>
        /\ BuyTotal(last.orders) <= SellTotal(last.orders)
        /\ total_value(apply_orders(holdings, last.orders)) <= last.V

(* What a held target symbol above its target keeps of its excess after    *)
(* the orders: post-trade value - weight * total_value, 0 for the other    *)
(* target symbols.                                                         *)
UnsoldExcess(i) ==
    LET sym == target_allocation[i].symbol
        target_value == target_allocation[i].pct * last.V
    IN  IF sym \in Keys(holdings) /\ Scaled(market_value(Get(holdings, sym))) > target_value
        THEN AppliedValue(sym) - target_value
        ELSE 0

WeightsAboveOne ==
    LET sum == SumSeq([i \in 1..Len(target_allocation) |-> target_allocation[i].pct])
    IN  IF sum > WeightScale THEN sum - WeightScale ELSE 0

(* C30, amended: the total BUY dollar_amount of the Simple strategy is <=   *)
(* the total SELL dollar_amount (liquidations included) plus, for each     *)
(* held target symbol above its target, the part of the excess it does not *)
(* sell (at least 0 and less than one share price), plus total_value times *)
(* the amount by which the weights sum to more than 1; the market value    *)
(* after applying the orders is <= total_value plus those two terms.       *)
C30_SelfFinancingUpToUnsold ==
    (last.op = "simple" /\ Returned_ok) =>
        LET unsold == SumSeq([i \in 1..Len(target_allocation) |-> UnsoldExcess(i)])
            slack == unsold + last.V * WeightsAboveOne
        IN  /\ \A i \in 1..Len(target_allocation) :
                  /\ UnsoldExcess(i) >= 0
                  /\ UnsoldExcess(i) > 0 =>
                        UnsoldExcess(i) < Scaled(RulePrice(target_allocation[i].symbol))
            /\ BuyTotal(last.orders) <= SellTotal(last.orders) + slack
            /\ Scaled(total_value(apply_orders(holdings, last.orders)))
                  <= Scaled(last.V) + slack

(* Weights that sum to exactly 1: Simple buys for more than it sells,      *)
(* because a held target symbol above its target keeps part of its excess. *)
C30_Witness ==
    /\ last.op = "simple" /\ Returned_ok
    /\ SumSeq([i \in 1..Len(target_allocation) |-> target_allocation[i].pct]) = WeightScale
    /\ BuyTotal(last.orders) > SellTotal(last.orders)
    /\ \E i \in 1..Len(target_allocation) : UnsoldExcess(i) > 0

====
